---- MODULE Spec2Model ----
(***************************************************************************)
(* Model of the stock dashboard frontend: the App polling controller       *)
(* (src/unnamed/part_001) and the data fetcher fetchStockDataApi           *)
(* (src/frontend/src/services/stockApi.js).                                *)
(*                                                                         *)
(* Strings the code inspects character by character (the ticker) are       *)
(* sequences of one-character strings.  React state setters are applied    *)
(* at the step that calls them; a functional update handed to a setter is  *)
(* kept pending until the render that evaluates it.                        *)
(***************************************************************************)
EXTENDS Integers, Sequences, FiniteSets, TLC

VARIABLES ticker, interval, stockData, isLoading, error, pollingTimerRef,
          mounted, effectDeps, pendingUpdate, timers, inflight, requests,
          nextId, userChanges, userDirty, last, stored

\* A caller of the fetcher on its own: the arguments of a call, what the
\* call did, and the URL of the first call of the run.
VARIABLES argTicker, argInterval, apiStage, apiOut, apiRound, firstUrl

appVars == <<ticker, interval, stockData, isLoading, error, pollingTimerRef,
             mounted, effectDeps, pendingUpdate, timers, inflight, requests,
             nextId, userChanges, userDirty, last, stored>>

apiVars == <<argTicker, argInterval, apiStage, apiOut, apiRound, firstUrl>>

\* The old frontend's Dashboard with its SearchBar: the Dashboard's state,
\* the SearchBar's text, the fetchStockList and fetchStockData calls that
\* have not settled, the number of searches started and the last step.
VARIABLES dashboard, searchTerm, listLoad, searches, searchId, dlast

dashVars == <<dashboard, searchTerm, listLoad, searches, searchId, dlast>>

vars == <<appVars, apiVars, dashVars>>

----------------------------------------------------------------------------
(* Bounds *)

MaxFetches == 3
MaxUserChanges == 1
MaxRounds == 2
MaxSearches == 2

----------------------------------------------------------------------------
(* Program constants *)

DEFAULT_TICKER == <<"A", "A", "P", "L">>
DEFAULT_INTERVAL == "15m"
POLLING_INTERVAL_MS == 30000
PERIOD_FOR_INTRADAY == "5d"
API_BASE_URL == "http://localhost:5000"

----------------------------------------------------------------------------
(* Values *)

\* A value held in the `interval` state: a string, or the promise returned
\* by the fetchData call with the given id.
Str(s) == [kind |-> "string", val |-> s, id |-> 0]
PromiseOf(n) == [kind |-> "promise", val |-> "", id |-> n]

\* The <option> values of the interval <select>.
IntervalOptions == {"5m", "15m"}

\* Texts the user can leave in the ticker <input>.
TickerInputs == {<<>>, <<" ", " ">>, <<"a">>, <<" ", "a">>, <<"A">>,
                 DEFAULT_TICKER}

Null == [null |-> TRUE, parts |-> <<>>]
Message(parts) == [null |-> FALSE, parts |-> parts]

\* useState({ info: null, history: [] })
InitialStockData ==
  [isObject |-> TRUE, info |-> "null", historyIsArray |-> TRUE, history |-> <<>>]

\* JSON bodies the backend can answer with.
GoodBodies ==
  { [isObject |-> TRUE, info |-> "info", historyIsArray |-> TRUE, history |-> h]
      : h \in {<<1>>, <<2>>} }
BadBodies ==
  { [isObject |-> FALSE, info |-> "null", historyIsArray |-> FALSE, history |-> <<>>],
    [isObject |-> TRUE, info |-> "info", historyIsArray |-> FALSE, history |-> <<>>] }
Bodies == GoodBodies \cup BadBodies

\* Non-success answers: status and statusText.
HttpFailures == { <<"500", "Internal Server Error">>, <<"404", "Not Found">> }

\* Messages of the errors the transport itself rejects with.
TransportMessages == { <<"Failed to fetch">> }

NoUpdate == [pending |-> FALSE, ticker |-> <<>>, interval |-> Str(""), keep |-> FALSE]
NoDeps == [set |-> FALSE, ticker |-> <<>>, interval |-> Str("")]
Deps(t, i) == [set |-> TRUE, ticker |-> t, interval |-> i]

----------------------------------------------------------------------------
(* fetchStockDataApi: the synchronous part *)

IsWhitespace(c) == c = " "

RECURSIVE TrimStart(_)
TrimStart(s) ==
  IF s = <<>> THEN <<>>
  ELSE IF IsWhitespace(Head(s)) THEN TrimStart(Tail(s)) ELSE s

RECURSIVE TrimEnd(_)
TrimEnd(s) ==
  IF s = <<>> THEN <<>>
  ELSE IF IsWhitespace(s[Len(s)]) THEN TrimEnd(SubSeq(s, 1, Len(s) - 1)) ELSE s

Trim(s) == TrimEnd(TrimStart(s))

UpperChar(c) ==
  CASE c = "a" -> "A"
    [] c = "p" -> "P"
    [] c = "l" -> "L"
    [] OTHER -> c

ToUpperCase(s) == [k \in 1..Len(s) |-> UpperChar(s[k])]

UpperTickerUntrimmed(t) == ToUpperCase(t)

\* ticker.trim().toUpperCase()
UpperTicker(t) == ToUpperCase(Trim(t))

TickerRequiredUntrimmed(t) == ToUpperCase(t) = <<>>

\* if (!upperTicker) throw ...
TickerRequired(t) == UpperTicker(t) = <<>>

ValidationMessage == Message(<<"Ticker symbol is required.">>)
HttpMessage(status, statusText) ==
  Message(<<"API Error (", status, "): ", statusText>>)
FormatMessage == Message(<<"Invalid data format received from API.">>)

InvalidFormatMissingOnly(body) == ~body.isObject

\* if (!data || !Array.isArray(data.history)) throw ...
InvalidFormat(body) == ~body.isObject \/ ~body.historyIsArray

\* String(value) as URLSearchParams applies it to a parameter.
ParamString(i) == IF i.kind = "promise" THEN "[object Promise]" ELSE i.val

\* new URLSearchParams(...) serializes its values form-encoded.
FormEncode(v) == IF v = "[object Promise]" THEN "%5Bobject+Promise%5D" ELSE v

\* `${params}`
SearchParams(period, i) ==
  <<"period=", FormEncode(period), "&interval=", FormEncode(ParamString(i))>>

\* `${API_BASE_URL}/api/stockdata/${upperTicker}?${params}`: the base, the
\* route, the characters of the symbol, "?" and the parameters.
ApiUrl(t, period, i) ==
  <<API_BASE_URL, "/api/stockdata/">> \o UpperTicker(t) \o <<"?">>
    \o SearchParams(period, i)

\* fetch(apiUrl) parses the string as a URL: the path ends at the first "?"
\* or "#", the query at the first "#" after it; a space in the path is
\* percent-encoded.
RECURSIVE UpTo(_, _)
UpTo(u, stops) ==
  IF u = <<>> \/ Head(u) \in stops THEN <<>>
  ELSE <<Head(u)>> \o UpTo(Tail(u), stops)

RECURSIVE From(_, _)
From(u, stops) ==
  IF u = <<>> THEN <<>>
  ELSE IF Head(u) \in stops THEN u ELSE From(Tail(u), stops)

HostEncode(c) == IF c = " " THEN "%20" ELSE c

\* The path after the route, as the host requests it.
ParsedSymbolPath(url) ==
  LET path == UpTo(SubSeq(url, 3, Len(url)), {"?", "#"})
  IN  [k \in 1..Len(path) |-> HostEncode(path[k])]

\* The query string the host sends.
ParsedQuery(url) ==
  LET rest == From(SubSeq(url, 3, Len(url)), {"?", "#"})
  IN  IF rest = <<>> \/ Head(rest) = "#" THEN <<>>
      ELSE UpTo(Tail(rest), {"#"})

\* The request fetch(apiUrl) issues for fetchData call n.
Request(n, t, period, i) ==
  [id |-> n, base |-> API_BASE_URL, path |-> <<"/api/stockdata/">>,
   symbol |-> UpperTicker(t), period |-> period, interval |-> ParamString(i)]

----------------------------------------------------------------------------
(* fetchData: the part that runs before the first await *)

PeriodWithoutOneMinute(i) ==
  IF i.kind = "string" /\ i.val \in {"5m", "15m"}
    THEN PERIOD_FOR_INTRADAY ELSE "1y"

Period(i) ==
  IF i.kind = "string" /\ i.val \in {"1m", "5m", "15m"}
    THEN PERIOD_FOR_INTRADAY ELSE "1y"

Call(n, t, i) ==
  [id |-> n, ticker |-> t, interval |-> i, period |-> Period(i),
   stage |-> IF TickerRequired(t) THEN "rejected" ELSE "requested"]

\* The requests issued by the calls in the set cs.
Issued(cs) ==
  { Request(c.id, c.ticker, c.period, c.interval) : c \in {d \in cs : d.stage = "requested"} }

\* State setters of an unmounted component change nothing.
Set(cur, new) == IF mounted THEN new ELSE cur

\* fetchData up to its first await, as call n with the given arguments.
StartFetch(n, t, i) ==
  /\ isLoading' = Set(isLoading, TRUE)
  /\ error' = Set(error, Null)
  /\ inflight' = inflight \cup {Call(n, t, i)}
  /\ requests' = requests \cup Issued({Call(n, t, i)})
  /\ nextId' = n + 1

----------------------------------------------------------------------------
(* Timers of the host *)

NullRef == [kind |-> "null", id |-> 0]
Undefined == [kind |-> "undefined", id |-> 0]
Handle(n) == [kind |-> "timer", id |-> n]

Truthy(ref) == ref.kind = "timer"

\* window.clearInterval(handle)
ClearInterval(ts, ref) == { h \in ts : Handle(h.id) # ref }

\* `setInterval` inside App is the setter of the `interval` state
\* (const [interval, setInterval] = useState(...)): called with a function
\* it queues that function as a functional update, ignores the second
\* argument, arms nothing and returns undefined.
SetIntervalTimers(ts, n, t, i, ms) == ts
SetIntervalReturn(n) == Undefined
SetIntervalUpdate(t, i) ==
  [pending |-> TRUE, ticker |-> t, interval |-> i, keep |-> TRUE]

----------------------------------------------------------------------------
(* The App controller *)

InitApp ==
  /\ ticker = DEFAULT_TICKER
  /\ interval = Str(DEFAULT_INTERVAL)
  /\ stockData = InitialStockData
  /\ isLoading = FALSE
  /\ error = Null
  /\ pollingTimerRef = NullRef
  /\ mounted = TRUE
  /\ effectDeps = NoDeps
  /\ pendingUpdate = NoUpdate
  /\ timers = {}
  /\ inflight = {}
  /\ requests = {}
  /\ nextId = 1
  /\ userChanges = 0
  /\ userDirty = FALSE
  /\ last = [kind |-> "init", id |-> 0, user |-> FALSE, detail |-> ""]
  /\ stored = [set |-> FALSE, id |-> 0, prev |-> 0, ticker |-> <<>>,
               interval |-> Str(""), body |-> InitialStockData]

NoCall == [id |-> 0, ticker |-> <<>>, interval |-> Str(""), period |-> "",
           stage |-> "none", url |-> <<>>]

\* No caller besides App.
ApiIdle ==
  /\ argTicker = <<>>
  /\ argInterval = Str("")
  /\ apiStage = "idle"
  /\ apiOut = NoCall
  /\ apiRound = 0
  /\ firstUrl = <<>>

\* Dashboard's useState initial values, SearchBar's useState("").
InitDash ==
  /\ dashboard = [stockData |-> [null |-> TRUE, id |-> 0],
                  stockList |-> <<>>,
                  selectedStock |-> [null |-> TRUE, symbol |-> <<>>],
                  loading |-> FALSE,
                  error |-> Null]
  /\ searchTerm = <<>>
  /\ listLoad = "idle"
  /\ searches = {}
  /\ searchId = 0
  /\ dlast = [kind |-> "init", id |-> 0]

Init == InitApp /\ ApiIdle /\ InitDash

\* The cleanup the previous run of the effect returned.
Cleanup(ts) == IF effectDeps.set THEN ClearInterval(ts, pollingTimerRef) ELSE ts

EffectDueUnmounted ==
  /\ ~pendingUpdate.pending
  /\ effectDeps # Deps(ticker, interval)

\* The effect runs after a commit whose [ticker, interval] differ from the
\* ones of its previous run (and after the first commit).
EffectDue ==
  /\ mounted
  /\ ~pendingUpdate.pending
  /\ effectDeps # Deps(ticker, interval)

\* useEffect(() => {...}, [ticker, interval, fetchData])
RunEffect ==
  /\ EffectDue
  /\ nextId <= MaxFetches
  /\ StartFetch(nextId, ticker, interval)
  /\ LET cleaned == Cleanup(timers)
         cleared == IF Truthy(pollingTimerRef)
                      THEN ClearInterval(cleaned, pollingTimerRef) ELSE cleaned
     IN  timers' = SetIntervalTimers(cleared, nextId, ticker, interval,
                                     POLLING_INTERVAL_MS)
  /\ pollingTimerRef' = SetIntervalReturn(nextId)
  /\ pendingUpdate' = SetIntervalUpdate(ticker, interval)
  /\ effectDeps' = Deps(ticker, interval)
  /\ userDirty' = FALSE
  /\ last' = [kind |-> "effect", id |-> nextId, user |-> userDirty, detail |-> ""]
  /\ UNCHANGED <<ticker, interval, stockData, mounted, userChanges, stored>>

\* A render may evaluate the queued functional update only while mounted.
UpdateDue == mounted /\ pendingUpdate.pending

\* The render that evaluates the functional update queued by the effect:
\* it calls () => fetchData(ticker, interval) with the effect's closure and
\* stores what the call returns, a promise, as the new `interval`.
ApplyUpdate ==
  /\ UpdateDue
  /\ nextId <= MaxFetches
  /\ StartFetch(nextId, pendingUpdate.ticker, pendingUpdate.interval)
  /\ interval' = IF pendingUpdate.keep THEN PromiseOf(nextId) ELSE interval
  /\ pendingUpdate' = NoUpdate
  /\ last' = [kind |-> "update", id |-> nextId, user |-> FALSE, detail |-> ""]
  /\ UNCHANGED <<ticker, stockData, pollingTimerRef, mounted, effectDeps,
                 timers, userChanges, userDirty, stored>>

\* <input onChange={(e) => setTicker(e.target.value)} />
ChangeTicker(t) ==
  /\ mounted
  /\ userChanges < MaxUserChanges
  /\ t # ticker
  /\ ticker' = t
  /\ userChanges' = userChanges + 1
  /\ userDirty' = TRUE
  /\ last' = [kind |-> "ticker", id |-> 0, user |-> TRUE, detail |-> ""]
  /\ UNCHANGED <<interval, stockData, isLoading, error, pollingTimerRef,
                 mounted, effectDeps, pendingUpdate, timers, inflight,
                 requests, nextId, stored>>

\* <select onChange={(e) => setInterval(e.target.value)}>: a value queued
\* behind a pending functional update replaces that update's result.
ChangeInterval(v) ==
  /\ mounted
  /\ userChanges < MaxUserChanges
  /\ Str(v) # interval
  /\ interval' = Str(v)
  /\ pendingUpdate' = IF pendingUpdate.pending
                        THEN [pendingUpdate EXCEPT !.keep = FALSE]
                        ELSE pendingUpdate
  /\ userChanges' = userChanges + 1
  /\ userDirty' = TRUE
  /\ last' = [kind |-> "interval", id |-> 0, user |-> TRUE, detail |-> ""]
  /\ UNCHANGED <<ticker, stockData, isLoading, error, pollingTimerRef,
                 mounted, effectDeps, timers, inflight, requests, nextId,
                 stored>>

\* The view is unmounted: the effect's cleanup runs, queued updates are
\* dropped.
Unmount ==
  /\ mounted
  /\ mounted' = FALSE
  /\ timers' = Cleanup(timers)
  /\ pendingUpdate' = NoUpdate
  /\ last' = [kind |-> "unmount", id |-> 0, user |-> FALSE, detail |-> ""]
  /\ UNCHANGED <<ticker, interval, stockData, isLoading, error,
                 pollingTimerRef, effectDeps, inflight, requests, nextId,
                 userChanges, userDirty, stored>>

----------------------------------------------------------------------------
(* The rest of a fetchData call: what follows the await *)

SettledStillLoading(c, kind, detail) ==
  /\ inflight' = inflight \ {c}
  /\ last' = [kind |-> kind, id |-> c.id, user |-> FALSE, detail |-> detail]
  /\ UNCHANGED <<ticker, interval, pollingTimerRef, mounted, effectDeps,
                 pendingUpdate, timers, requests, nextId, userChanges,
                 userDirty, isLoading>>

SettledStillInFlight(c, kind, detail) ==
  /\ inflight' = inflight
  /\ last' = [kind |-> kind, id |-> c.id, user |-> FALSE, detail |-> detail]
  /\ isLoading' = Set(isLoading, FALSE)
  /\ UNCHANGED <<ticker, interval, pollingTimerRef, mounted, effectDeps,
                 pendingUpdate, timers, requests, nextId, userChanges,
                 userDirty>>

\* finally { setIsLoading(false) }: the call is over.
Settled(c, kind, detail) ==
  /\ inflight' = inflight \ {c}
  /\ last' = [kind |-> kind, id |-> c.id, user |-> FALSE, detail |-> detail]
  /\ isLoading' = Set(isLoading, FALSE)
  /\ UNCHANGED <<ticker, interval, pollingTimerRef, mounted, effectDeps,
                 pendingUpdate, timers, requests, nextId, userChanges,
                 userDirty>>

\* History: the latest call that resolved with a well-formed body while
\* mounted, and the call that did so before it.
Applied(c, body) ==
  [set |-> TRUE, id |-> c.id, prev |-> stored.id, ticker |-> c.ticker,
   interval |-> c.interval, body |-> body]

StoredUnlessSuperseded(c, body) ==
  IF stored.set /\ stored.id > c.id THEN stockData ELSE body

\* The data a resolved call stores.
Stored(c, body) == body

\* throw new Error("Ticker symbol is required.") reaches the catch.
RejectValidation(c) ==
  /\ c.stage = "rejected"
  /\ error' = Set(error, ValidationMessage)
  /\ UNCHANGED <<stockData, stored>>
  /\ Settled(c, "validation", "")

\* response.ok and the body parsed.
ResponseOk(c, body) ==
  /\ c.stage = "requested"
  /\ IF InvalidFormat(body)
       THEN /\ error' = Set(error, FormatMessage)
            /\ UNCHANGED <<stockData, stored>>
            /\ Settled(c, "format", "")
       ELSE /\ stockData' = Set(stockData, Stored(c, body))
            /\ stored' = Set(stored, Applied(c, body))
            /\ UNCHANGED error
            /\ Settled(c, "stored", "")

\* !response.ok
ResponseNotOk(c, f) ==
  /\ c.stage = "requested"
  /\ error' = Set(error, HttpMessage(f[1], f[2]))
  /\ UNCHANGED <<stockData, stored>>
  /\ Settled(c, "http", f[1])

\* fetch(apiUrl) itself rejects.
TransportFailure(c, m) ==
  /\ c.stage = "requested"
  /\ error' = Set(error, Message(m))
  /\ UNCHANGED <<stockData, stored>>
  /\ Settled(c, "transport", "")

\* Steps of App leave everything outside App alone.
AppFrame == UNCHANGED <<apiVars, dashVars>>

Next ==
  \/ RunEffect /\ AppFrame
  \/ ApplyUpdate /\ AppFrame
  \/ \E t \in TickerInputs : ChangeTicker(t) /\ AppFrame
  \/ \E v \in IntervalOptions : ChangeInterval(v) /\ AppFrame
  \/ Unmount /\ AppFrame
  \/ \E c \in inflight : RejectValidation(c) /\ AppFrame
  \/ \E c \in inflight, body \in Bodies : ResponseOk(c, body) /\ AppFrame
  \/ \E c \in inflight, f \in HttpFailures : ResponseNotOk(c, f) /\ AppFrame
  \/ \E c \in inflight, m \in TransportMessages :
        TransportFailure(c, m) /\ AppFrame

Spec == Init /\ [][Next]_vars

----------------------------------------------------------------------------
(* fetchData and fetchStockDataApi called on their own *)

\* Symbols a caller can pass: the ticker texts, texts with an inner space
\* and texts with characters that have a meaning in a URL.
SymbolInputs ==
  TickerInputs \cup {<<"a", " ", "A">>, <<"a", "/", "a">>, <<"A", "?", "a">>,
                     <<" ", "a", "#">>, <<"a", "p", "l">>}

\* Intervals a caller can pass.
IntervalInputs ==
  {Str(v) : v \in {"1m", "5m", "15m", "1h", "1d"}} \cup {PromiseOf(1)}

InitApi ==
  /\ InitApp
  /\ InitDash
  /\ argTicker \in SymbolInputs
  /\ argInterval \in IntervalInputs
  /\ apiStage = "ready"
  /\ apiOut = NoCall
  /\ apiRound = 1
  /\ firstUrl = <<>>

\* fetchData(argTicker, argInterval) up to the request it issues.
CallFetchData ==
  /\ apiStage = "ready"
  /\ LET c == Call(apiRound, argTicker, argInterval)
         u == IF c.stage = "requested"
                THEN ApiUrl(c.ticker, c.period, c.interval) ELSE <<>>
     IN  /\ apiOut' = [id |-> c.id, ticker |-> c.ticker,
                       interval |-> c.interval, period |-> c.period,
                       stage |-> c.stage, url |-> u]
         /\ firstUrl' = IF apiRound = 1 THEN u ELSE firstUrl
  /\ apiStage' = "called"
  /\ UNCHANGED <<argTicker, argInterval, apiRound>>

\* The symbol of the issued URL: its characters between the route and "?"
\* as the template placed them.
UrlSymbol(url) == SubSeq(url, 3, Len(url) - 5)

CanRetype ==
  /\ apiStage = "called"
  /\ apiOut.stage = "requested"
  /\ apiRound < MaxRounds

Retyped(t) ==
  /\ argTicker' = t
  /\ apiRound' = apiRound + 1
  /\ apiStage' = "ready"
  /\ UNCHANGED <<argInterval, apiOut, firstUrl>>

\* The caller passes the symbol of the request it just issued.
ResubmitNormalized ==
  /\ CanRetype
  /\ Retyped(UrlSymbol(apiOut.url))

SwapCase(c) ==
  CASE c = "a" -> "A"
    [] c = "A" -> "a"
    [] c = "p" -> "P"
    [] c = "P" -> "p"
    [] c = "l" -> "L"
    [] c = "L" -> "l"
    [] OTHER -> c

\* The caller passes the same symbol with one letter in the other case.
RetypeCase(k) ==
  /\ CanRetype
  /\ k \in 1..Len(argTicker)
  /\ SwapCase(argTicker[k]) # argTicker[k]
  /\ Retyped([argTicker EXCEPT ![k] = SwapCase(argTicker[k])])

\* The caller passes the same symbol with a space before or after it.
RetypePadded(left) ==
  /\ CanRetype
  /\ Retyped(IF left THEN <<" ">> \o argTicker ELSE argTicker \o <<" ">>)

ApiFrame == UNCHANGED <<appVars, dashVars>>

NextApi ==
  \/ CallFetchData /\ ApiFrame
  \/ ResubmitNormalized /\ ApiFrame
  \/ \E k \in 1..Len(argTicker) : RetypeCase(k) /\ ApiFrame
  \/ \E left \in BOOLEAN : RetypePadded(left) /\ ApiFrame

SpecApi == InitApi /\ [][NextApi]_vars

----------------------------------------------------------------------------
(* The old frontend: SearchBar and Dashboard *)

\* Texts the user can leave in the search <input>.
SearchTerms == {<<>>, <<"a">>, <<"A">>, <<"p">>, <<"l">>, <<" ", "a">>}

\* Bodies /api/stock/list can answer with.
StockLists == {<<>>, << <<"A">> >>, << <<"A">>, <<"P">> >>, << <<"a">> >>}

\* Bodies /api/stock/{symbol} can answer with.
StockBodies == {[null |-> FALSE, id |-> 1], [null |-> FALSE, id |-> 2]}

\* Messages of the errors fetchStockData and fetchStockList throw:
\* `HTTP error! status: ${response.status}` and the transport's own.
OldFailures == {<<"HTTP error! status: ", "500">>, <<"Failed to fetch">>}

\* Array.prototype.includes
Includes(list, x) == \E k \in 1..Len(list) : list[k] = x

FoundAsTyped(list, term) == Includes(list, term)

\* stockList.includes(searchTerm.toUpperCase())
Found(list, term) == Includes(list, ToUpperCase(term))

\* useEffect(() => { loadStockList() }, []) up to its await.
LoadStockList ==
  /\ listLoad = "idle"
  /\ listLoad' = "pending"
  /\ dashboard' = [dashboard EXCEPT !.loading = TRUE]
  /\ dlast' = [kind |-> "load", id |-> 0]
  /\ UNCHANGED <<searchTerm, searches, searchId>>

\* fetchStockList resolved: setStockList(list); finally setLoading(false).
StockListLoaded(list) ==
  /\ listLoad = "pending"
  /\ listLoad' = "done"
  /\ dashboard' = [dashboard EXCEPT !.stockList = list, !.loading = FALSE]
  /\ dlast' = [kind |-> "list", id |-> 0]
  /\ UNCHANGED <<searchTerm, searches, searchId>>

\* fetchStockList rejected: setError(err.message || ...); setLoading(false).
StockListFailed(m) ==
  /\ listLoad = "pending"
  /\ listLoad' = "failed"
  /\ dashboard' = [dashboard EXCEPT !.error = Message(m), !.loading = FALSE]
  /\ dlast' = [kind |-> "listFailed", id |-> 0]
  /\ UNCHANGED <<searchTerm, searches, searchId>>

\* SearchBar.handleChange
HandleChange(v) ==
  /\ v # searchTerm
  /\ searchTerm' = v
  /\ dlast' = [kind |-> "change", id |-> 0]
  /\ UNCHANGED <<dashboard, listLoad, searches, searchId>>

\* Dashboard.handleSearch(symbol) up to its await.
HandleSearch(symbol) ==
  /\ dashboard' = [dashboard EXCEPT
                     !.selectedStock = [null |-> FALSE, symbol |-> symbol],
                     !.stockData = [null |-> TRUE, id |-> 0],
                     !.error = Null,
                     !.loading = TRUE]
  /\ searches' = searches \cup {[id |-> searchId + 1, symbol |-> symbol]}
  /\ searchId' = searchId + 1
  /\ dlast' = [kind |-> "search", id |-> searchId + 1]

\* SearchBar.handleSubmit
HandleSubmit ==
  /\ searchId < MaxSearches
  /\ IF Found(dashboard.stockList, searchTerm)
       THEN HandleSearch(ToUpperCase(searchTerm))
       ELSE /\ dlast' = [kind |-> "alert", id |-> 0]
            /\ UNCHANGED <<dashboard, searches, searchId>>
  /\ UNCHANGED <<searchTerm, listLoad>>

\* fetchStockData resolved: setStockData(data); finally setLoading(false).
SearchLoaded(q, body) ==
  /\ q \in searches
  /\ searches' = searches \ {q}
  /\ dashboard' = [dashboard EXCEPT !.stockData = body, !.loading = FALSE]
  /\ dlast' = [kind |-> "data", id |-> q.id]
  /\ UNCHANGED <<searchTerm, listLoad, searchId>>

\* fetchStockData rejected: setError(err.message || ...); setLoading(false).
SearchFailed(q, m) ==
  /\ q \in searches
  /\ searches' = searches \ {q}
  /\ dashboard' = [dashboard EXCEPT !.error = Message(m), !.loading = FALSE]
  /\ dlast' = [kind |-> "failed", id |-> q.id]
  /\ UNCHANGED <<searchTerm, listLoad, searchId>>

DashFrame == UNCHANGED <<appVars, apiVars>>

NextDashboard ==
  \/ LoadStockList /\ DashFrame
  \/ \E list \in StockLists : StockListLoaded(list) /\ DashFrame
  \/ \E m \in OldFailures : StockListFailed(m) /\ DashFrame
  \/ \E v \in SearchTerms : HandleChange(v) /\ DashFrame
  \/ HandleSubmit /\ DashFrame
  \/ \E q \in searches, body \in StockBodies : SearchLoaded(q, body) /\ DashFrame
  \/ \E q \in searches, m \in OldFailures : SearchFailed(q, m) /\ DashFrame

InitDashboard == InitApp /\ ApiIdle /\ InitDash

SpecDashboard == InitDashboard /\ [][NextDashboard]_vars

TypeOK ==
  /\ ticker \in TickerInputs
  /\ isLoading \in BOOLEAN
  /\ mounted \in BOOLEAN
  /\ nextId \in 1..(MaxFetches + 1)
  /\ userChanges \in 0..MaxUserChanges

----------------------------------------------------------------------------
(* Claims *)

UserKinds == {"ticker", "interval"}
SettleKinds == {"validation", "format", "stored", "http", "transport"}
HoldsNoHistory(d) == d.history = <<>>
Blank(t) == \A k \in 1..Len(t) : t[k] = " "

\* C1: while the controller is mounted and its effect has run, exactly one
\* repeating poll timer is active.
C1_ExactlyOneTimer ==
  (mounted /\ effectDeps.set) => Cardinality(timers) = 1

\* C2: while mounted, the effect's run has armed a repeating timer with the
\* period 30000 ms that re-issues the fetch with the ticker and interval of
\* that run.
C2_TimerRepeatsSelection ==
  (mounted /\ effectDeps.set) =>
    \E h \in timers : /\ h.ms = POLLING_INTERVAL_MS
                      /\ h.ticker = effectDeps.ticker
                      /\ h.interval = effectDeps.interval

\* C3: fetches start only on activation, on a user change and on a timer
\* firing, one each: no more fetches have started than there were
\* activations and user changes (no timer ever fires).
C3_FetchOnlyOnTrigger ==
  nextId - 1 <= 1 + userChanges

\* C4: ticker and interval change only in the step of a user input event.
C4_SelectionOnlyByUser ==
  [][(ticker' # ticker \/ interval' # interval) => last'.kind \in UserKinds]_vars

\* C5: once the controller is torn down no timer is active and no further
\* fetch or request is started.
C5_QuietAfterTeardown ==
  [][/\ ~mounted' => timers' = {}
     /\ ~mounted => (~mounted' /\ nextId' = nextId /\ requests' = requests)]_vars

C5_Witness ==
  /\ ~mounted
  /\ userChanges > 0
  /\ nextId > 2
  /\ last.kind \in SettleKinds

\* C6: the stored data is the response of the call that resolved
\* successfully last, whatever the order the calls were issued in.
C6_LastResolvedWins ==
  stored.set => stockData = stored.body

C6_Witness ==
  /\ mounted
  /\ last.kind = "stored"
  /\ stored.prev > stored.id
  /\ <<stored.ticker, stored.interval>> # <<ticker, interval>>
  /\ stockData = stored.body

\* C7: right after a call resolves successfully, data is its response and
\* error is null.
C7_SuccessClearsError ==
  (mounted /\ last.kind = "stored") => (stockData = stored.body /\ error = Null)

\* C8: right after a call resolves with a non-success HTTP status, error
\* contains the status code and no history is held.
C8_HttpErrorDropsData ==
  (mounted /\ last.kind = "http") =>
    /\ ~error.null
    /\ \E k \in 1..Len(error.parts) : error.parts[k] = last.detail
    /\ HoldsNoHistory(stockData)

\* C9: right after the effect of a user's ticker or interval change has
\* started the fetch for the new selection, no history is held.
C9_ChangeClearsData ==
  (mounted /\ last.kind = "effect" /\ last.user) => HoldsNoHistory(stockData)

\* C10: a call whose ticker is blank issues no request and ends with the
\* validation error in error; every request carries a non-empty symbol.
C10_BlankTickerNoRequest ==
  /\ \A c \in inflight :
       Blank(c.ticker) => /\ c.stage = "rejected"
                          /\ \A r \in requests : r.id # c.id
  /\ \A c \in inflight : c.stage = "rejected" => Blank(c.ticker)
  /\ \A r \in requests : r.symbol # <<>>
  /\ (mounted /\ last.kind = "validation") => error = ValidationMessage

C10_Witness ==
  /\ mounted
  /\ last.kind = "validation"
  /\ ticker = <<" ", " ">>
  /\ error = ValidationMessage
  /\ requests # {}

\* C12: the stored stockData always has an array-valued history; a missing
\* body or a non-array history ends the call with the format error.
C12_StoredHistoryIsArray ==
  /\ stockData.isObject
  /\ stockData.historyIsArray
  /\ (mounted /\ last.kind = "format") => error = FormatMessage
  /\ (mounted /\ last.kind = "stored") => stockData \in GoodBodies

C12_Witness ==
  /\ mounted
  /\ last.kind = "format"
  /\ error = FormatMessage
  /\ stored.set
  /\ stockData = stored.body

FailureKinds == {"validation", "format", "http", "transport"}

\* The message a failure of the given kind leaves in error.
FailureShown(kind, detail, e) ==
  CASE kind = "validation" -> e = ValidationMessage
    [] kind = "format" -> e = FormatMessage
    [] kind = "http" ->
         /\ ~e.null
         /\ Len(e.parts) = 4
         /\ e.parts[2] = detail
    [] kind = "transport" -> ~e.null /\ e.parts \in TransportMessages
    [] OTHER -> FALSE

\* C13: the step in which a call fails, while mounted, stores the failure's
\* message in error, sets isLoading to false, starts no other call and
\* issues no request, and leaves the controller mounted with its selection.
C13_FailureIsTerminal ==
  [][(mounted /\ last'.kind \in FailureKinds /\ inflight' # inflight) =>
       /\ FailureShown(last'.kind, last'.detail, error')
       /\ isLoading' = FALSE
       /\ requests' = requests
       /\ nextId' = nextId
       /\ Cardinality(inflight') = Cardinality(inflight) - 1
       /\ mounted'
       /\ <<ticker', interval', stockData'>> = <<ticker, interval, stockData>>]_vars

C13_Witness ==
  /\ mounted
  /\ last.kind = "http"
  /\ ~isLoading
  /\ FailureShown("http", "500", error)
  /\ nextId <= MaxFetches
  /\ userChanges < MaxUserChanges

C17_LoadingWhileInFlight ==
  (mounted /\ inflight # {}) => isLoading

Requested == apiStage = "called" /\ apiOut.stage = "requested"

\* The parameters at the end of an issued URL.
UrlParams(url) == SubSeq(url, Len(url) - 3, Len(url))

\* C11: the period of a call is "5d" for the intervals 1m, 5m and 15m and
\* "1y" for every other one, and the URL of the call carries the call's
\* interval together with that period.
C11_PeriodFromInterval ==
  apiStage = "called" =>
    LET expected == IF argInterval \in {Str("1m"), Str("5m"), Str("15m")}
                      THEN "5d" ELSE "1y"
        shown == IF argInterval.kind = "promise"
                   THEN "%5Bobject+Promise%5D" ELSE argInterval.val
    IN  /\ apiOut.period = expected
        /\ apiOut.interval = argInterval
        /\ apiOut.stage = "requested" =>
             UrlParams(apiOut.url) = <<"period=", expected, "&interval=", shown>>

C11_Witness ==
  /\ Requested
  /\ argInterval = Str("1m")
  /\ apiOut.period = "5d"
  /\ UrlParams(apiOut.url) = <<"period=", "5d", "&interval=", "1m">>

\* C15: the symbol is one escaped segment of the requested path: no
\* character of it splits the path, ends it or reaches the query.
C15_SymbolEscaped ==
  Requested =>
    /\ \A k \in 1..Len(ParsedSymbolPath(apiOut.url)) :
         ParsedSymbolPath(apiOut.url)[k] # "/"
    /\ Len(ParsedSymbolPath(apiOut.url)) = Len(UrlSymbol(apiOut.url))
    /\ ParsedQuery(apiOut.url) = UrlParams(apiOut.url)

Lowercase == {"a", "p", "l"}

\* r is s without its surrounding spaces and with every letter in upper
\* case.
IsNormalizationOf(r, s) ==
  \E i, j \in 1..Len(s) :
    /\ i <= j
    /\ s[i] # " " /\ s[j] # " "
    /\ \A k \in 1..(i - 1) : s[k] = " "
    /\ \A k \in (j + 1)..Len(s) : s[k] = " "
    /\ Len(r) = j - i + 1
    /\ \A k \in 1..Len(r) :
         /\ r[k] \notin Lowercase
         /\ r[k] \in {s[i + k - 1], SwapCase(s[i + k - 1])}

\* C16: the URL of a call is the base, the route /api/stockdata/ and the
\* trimmed, uppercased symbol; passing the normalized symbol again, or the
\* symbol in another case or with spaces around it, gives the same URL.
C16_NormalizedSymbol ==
  Requested =>
    /\ SubSeq(apiOut.url, 1, 2) = <<"http://localhost:5000", "/api/stockdata/">>
    /\ apiOut.url[Len(apiOut.url) - 4] = "?"
    /\ IsNormalizationOf(UrlSymbol(apiOut.url), argTicker)
    /\ apiRound > 1 => apiOut.url = firstUrl

C16_Witness ==
  /\ Requested
  /\ apiRound > 1
  /\ argTicker # UrlSymbol(apiOut.url)
  /\ Len(argTicker) > Len(UrlSymbol(apiOut.url))
  /\ apiOut.url = firstUrl

\* C18: the Dashboard's error and stockData are never both non-null.
C18_ErrorOrDataNotBoth ==
  ~(~dashboard.error.null /\ ~dashboard.stockData.null)

\* C19: a search starts only in a submit whose uppercased text is in the
\* stock list loaded so far, for that uppercased text; any other submit
\* changes nothing of the Dashboard, so with no list loaded no search ever
\* starts.
C19_SearchOnlyForListed ==
  [][/\ searchId' # searchId =>
          /\ dlast'.kind = "search"
          /\ Includes(dashboard.stockList, ToUpperCase(searchTerm))
          /\ searches' \ searches =
               {[id |-> searchId', symbol |-> ToUpperCase(searchTerm)]}
          /\ dashboard'.selectedStock.symbol = ToUpperCase(searchTerm)
     /\ dlast'.kind = "alert" =>
          /\ ~Includes(dashboard.stockList, ToUpperCase(searchTerm))
          /\ UNCHANGED <<dashboard, searches, searchId>>
     /\ \A q \in searches' : Includes(dashboard'.stockList, q.symbol)
     /\ dashboard'.stockList = <<>> =>
          /\ searchId' = 0
          /\ dashboard'.selectedStock.null
          /\ dashboard'.stockData.null]_vars

C19_Witness ==
  /\ dlast.kind = "alert"
  /\ listLoad = "done"
  /\ dashboard.stockList # <<>>
  /\ searchTerm # <<>>
  /\ searches # {}

====
